---- MODULE Spec2Model ----
(***************************************************************************)
(* A model of pyorcidator's helper module (src/pyorcidator/helper.py) and  *)
(* of the vocabulary loaded by src/pyorcidator/dictionaries/__init__.py.   *)
(*                                                                         *)
(* Strings are sequences of pieces.  A piece is a TLA+ string standing for *)
(* the characters it holds; labels, identifiers and date components are    *)
(* spelled one character per piece, the literal fragments of the f-strings *)
(* are one piece each, with "|", "/" and the newline always pieces of      *)
(* their own.  String concatenation is \o and the empty string is <<>>.    *)
(* Python's None is None where a string may stand and Null where a JSON    *)
(* object may stand.                                                       *)
(***************************************************************************)
EXTENDS Integers, Sequences, FiniteSets, TLC

VARIABLES
    dicts,      \* dictionaries.dicts: category stem -> (label -> qid), in memory
    files,      \* the text of each category's JSON file, by stem (stem_to_path)
    trace,      \* the collaborator calls of the running operation, in order
    call,       \* the helper function under call and its arguments
    ret,        \* what the finished call returned or raised
    pc,         \* position of render_orcid_qs
    orcid,      \* render_orcid_qs: its argument
    data,       \* render_orcid_qs: the profile document returned by get_orcid_data
    researcher_qid,       \* render_orcid_qs: local
    qs,                   \* render_orcid_qs: local, the statement text so far
    employment_entries,   \* render_orcid_qs: local
    education_entries     \* render_orcid_qs: local

vars == <<dicts, files, trace, call, ret, pc, orcid, data, researcher_qid, qs,
          employment_entries, education_entries>>

storeVars == <<dicts, files>>
callVars == <<call, ret>>
importVars == <<pc, orcid, data, researcher_qid, qs, employment_entries, education_entries>>

-----------------------------------------------------------------------------
(* Values *)

None == <<"<None>">>
Null == [null |-> TRUE]

NL == "\n"

\* The characters the model's labels and identifiers are spelled with, in
\* code-point order (digits, capitals, small letters).
Alphabet == <<"0", "1", "2", "3", "4", "5", "6", "7", "8", "9", "I", "M", "P", "Q", "T">>

DecimalDigits == <<"0", "1", "2", "3", "4", "5", "6", "7", "8", "9">>
Digits == {DecimalDigits[i] : i \in 1..Len(DecimalDigits)}
Capitals == {"I", "M", "P", "Q", "T"}

CodePoint(c) == CHOOSE i \in 1..Len(Alphabet) : Alphabet[i] = c

Q42 == <<"Q", "4", "2">>
Q99 == <<"Q", "9", "9">>
Q5 == <<"Q", "5">>
Ids == {Q42, Q99}

MIT == <<"M", "I", "T">>
Q7 == <<"Q", "7">>
P7 == <<"P", "7">>
Labels == {MIT, Q7, P7}

Categories == {"role", "institutions"}

ORCID1 == <<"0", "1">>

\* The sequences over S of length at most n.
SeqsUpTo(S, n) == UNION {[1..k -> S] : k \in 0..n}

\* render_orcid_qs: ref = f'|S854|"https://orcid.org/{str(orcid)}"'
reference(id) == <<"|", "S854", "|", "\"https:", "/", "/", "orcid.org", "/">> \o id \o <<"\"">>

\* Python's str ordering: lexicographic by code point.
StrLess(a, b) ==
    \E n \in 0..Len(a) :
        /\ n <= Len(b)
        /\ \A i \in 1..n : a[i] = b[i]
        /\ \/ n = Len(a) /\ n < Len(b)
           \/ n < Len(a) /\ n < Len(b) /\ CodePoint(a[n + 1]) < CodePoint(b[n + 1])

RECURSIVE Sorted(_)
Sorted(S) ==
    IF S = {} THEN <<>>
    ELSE LET m == CHOOSE x \in S : \A y \in S \ {x} : StrLess(x, y)
         IN <<m>> \o Sorted(S \ {m})

-----------------------------------------------------------------------------
(* The vocabulary files *)

\* json.dumps(data, indent=2, sort_keys=True, ensure_ascii=False): the text of
\* an object is its members, one <<key, value>> per line, in key order.
json_dumps(d) ==
    LET keys == Sorted(DOMAIN d)
    IN [i \in 1..Len(keys) |-> <<keys[i], d[keys[i]]>>]

\* json.loads of such a text: a later member of the same key wins.
json_loads(text) ==
    [k \in {text[i][1] : i \in 1..Len(text)} |->
        text[CHOOSE i \in 1..Len(text) :
                /\ text[i][1] = k
                /\ \A j \in (i + 1)..Len(text) : text[j][1] # k][2]]

\* The files as the package ships them to the first run.
InitialFiles ==
    [stem \in Categories |->
        IF stem = "institutions" THEN <<<<MIT, Q42>>>> ELSE <<>>]

\* dictionaries/__init__.py: dicts = {path.stem: json.loads(path.read_text())}
load_dicts(fs) == [stem \in DOMAIN fs |-> json_loads(fs[stem])]

-----------------------------------------------------------------------------
(* get_qid_for_item *)

\* What wdcuration's add_key(data, target_item) does with the operator at the
\* prompt: it puts target_item -> the qid the operator settles on into data,
\* or raises before touching data.
Raise == <<"<raise>">>
AddKeyAnswers == Ids \cup {Raise}

add_key(d, target_item, answer) ==
    [k \in DOMAIN d \cup {target_item} |-> IF k = target_item THEN answer ELSE d[k]]

\* The collaborator calls a helper makes, as trace records them.
AddKeyCall(key, target_item, answer) ==
    [op |-> "add_key", key |-> key, target_item |-> target_item, answer |-> answer]
WriteTextCall(key, text) == [op |-> "write_text", key |-> key, text |-> text]

\* Line 161 left out: the new key stays in memory and the file is not rewritten.
get_qid_for_item_unsaved(ds, fs, key, target_item, answer) ==
    LET d == ds[key]
    IN IF target_item \notin DOMAIN d
       THEN IF answer = Raise
            THEN [dicts |-> ds, files |-> fs,
                  trace |-> <<AddKeyCall(key, target_item, answer)>>,
                  raised |-> TRUE, qid |-> None]
            ELSE LET d2 == add_key(d, target_item, answer)
                 IN [dicts |-> [ds EXCEPT ![key] = d2], files |-> fs,
                     trace |-> <<AddKeyCall(key, target_item, answer)>>,
                     raised |-> FALSE, qid |-> d2[target_item]]
       ELSE [dicts |-> ds, files |-> fs, trace |-> <<>>,
             raised |-> FALSE, qid |-> d[target_item]]

\* The write of line 161 moved out of the `if`: the file is rewritten on a hit too.
get_qid_for_item_resaved(ds, fs, key, target_item, answer) ==
    LET d == ds[key]
    IN IF target_item \notin DOMAIN d
       THEN IF answer = Raise
            THEN [dicts |-> ds, files |-> fs,
                  trace |-> <<AddKeyCall(key, target_item, answer)>>,
                  raised |-> TRUE, qid |-> None]
            ELSE LET d2 == add_key(d, target_item, answer)
                 IN [dicts |-> [ds EXCEPT ![key] = d2],
                     files |-> [fs EXCEPT ![key] = json_dumps(d2)],
                     trace |-> <<AddKeyCall(key, target_item, answer),
                                 WriteTextCall(key, json_dumps(d2))>>,
                     raised |-> FALSE, qid |-> d2[target_item]]
       ELSE [dicts |-> ds, files |-> [fs EXCEPT ![key] = json_dumps(d)],
             trace |-> <<WriteTextCall(key, json_dumps(d))>>,
             raised |-> FALSE, qid |-> d[target_item]]

\* The failure of add_key caught: the label is stored as its own identifier,
\* the file is rewritten, and the lookup returns.
get_qid_for_item_swallowed(ds, fs, key, target_item, answer) ==
    LET d == ds[key]
    IN IF target_item \notin DOMAIN d
       THEN LET d2 == add_key(d, target_item, IF answer = Raise THEN target_item ELSE answer)
            IN [dicts |-> [ds EXCEPT ![key] = d2],
                files |-> [fs EXCEPT ![key] = json_dumps(d2)],
                trace |-> <<AddKeyCall(key, target_item, answer),
                            WriteTextCall(key, json_dumps(d2))>>,
                raised |-> FALSE, qid |-> d2[target_item]]
       ELSE [dicts |-> ds, files |-> fs, trace |-> <<>>,
             raised |-> FALSE, qid |-> d[target_item]]

\* get_qid_for_item(key, target_item) run on the store <<ds, fs>> with the
\* operator answering `answer` if asked.  The result holds the store after
\* the call, the collaborator calls made, and the qid returned (or raised).
get_qid_for_item(ds, fs, key, target_item, answer) ==
    LET d == ds[key]
    IN IF target_item \notin DOMAIN d
       THEN IF answer = Raise
            THEN [dicts |-> ds, files |-> fs,
                  trace |-> <<AddKeyCall(key, target_item, answer)>>,
                  raised |-> TRUE, qid |-> None]
            ELSE LET d2 == add_key(d, target_item, answer)
                 IN [dicts |-> [ds EXCEPT ![key] = d2],
                     files |-> [fs EXCEPT ![key] = json_dumps(d2)],
                     trace |-> <<AddKeyCall(key, target_item, answer),
                                 WriteTextCall(key, json_dumps(d2))>>,
                     raised |-> FALSE, qid |-> d2[target_item]]
       ELSE [dicts |-> ds, files |-> fs, trace |-> <<>>,
             raised |-> FALSE, qid |-> d[target_item]]

-----------------------------------------------------------------------------
(* process_item *)

\* The end of the run of digits that starts at position i of s.
RECURSIVE DigitsEnd(_, _)
DigitsEnd(s, i) ==
    IF i <= Len(s) /\ s[i] \in Digits THEN DigitsEnd(s, i + 1) ELSE i

\* re.findall("Q[0-9]*", s): the matches from position i on, left to right.
RECURSIVE re_findall_from(_, _)
re_findall_from(s, i) ==
    IF i > Len(s) THEN <<>>
    ELSE IF s[i] = "Q"
         THEN LET j == DigitsEnd(s, i + 1)
              IN <<SubSeq(s, i, j - 1)>> \o re_findall_from(s, j)
         ELSE re_findall_from(s, i + 1)

re_findall(s) == re_findall_from(s, 1)

\* for key, value in qualifier_pairs.items(): qs = qs + f"|{key}|{value}" + f"{ref}"
RECURSIVE add_qualifier_pairs(_, _, _)
add_qualifier_pairs(text, pairs, ref) ==
    IF pairs = <<>> THEN text
    ELSE add_qualifier_pairs(
             text \o <<"|">> \o pairs[1][1] \o <<"|">> \o pairs[1][2] \o ref,
             Tail(pairs), ref)

\* The loop of process_item from the i-th target on.  a holds the arguments
\* of the call, st the store, the collaborator calls so far and the text so
\* far; answers[label] is what the operator answers when add_key asks about
\* label.
RECURSIVE process_item_from(_, _, _, _)
process_item_from(st, i, a, answers) ==
    IF i > Len(a.target_list) THEN st
    ELSE
      LET target_item == a.target_list[i]
          r == IF re_findall(target_item) # <<>>
               THEN [dicts |-> st.dicts, files |-> st.files, trace |-> <<>>,
                     raised |-> FALSE, qid |-> target_item]
               ELSE get_qid_for_item(st.dicts, st.files, a.original_dict, target_item,
                                     answers[target_item])
          line == st.qs \o <<NL>> \o a.subject_qid \o <<"|">> \o a.property_id
                        \o <<"|">> \o r.qid
          text == IF a.qualifier_nested_dictionary # Null
                  THEN add_qualifier_pairs(line, a.qualifier_nested_dictionary[target_item],
                                           a.ref)
                  ELSE line \o a.ref
      IN IF r.raised
         THEN [dicts |-> r.dicts, files |-> r.files, trace |-> st.trace \o r.trace,
               raised |-> TRUE, qs |-> None]
         ELSE process_item_from(
                  [dicts |-> r.dicts, files |-> r.files, trace |-> st.trace \o r.trace,
                   raised |-> FALSE, qs |-> text],
                  i + 1, a, answers)

process_item(ds, fs, a, answers) ==
    process_item_from(
        [dicts |-> ds, files |-> fs, trace |-> <<>>, raised |-> FALSE, qs |-> a.qs],
        1, a, answers)

-----------------------------------------------------------------------------
(* lookup_id *)

\* str.split("/"): the segments of s between the "/" pieces; acc is the
\* segment being read.
RECURSIVE split_from(_, _, _)
split_from(s, i, acc) ==
    IF i > Len(s) THEN <<acc>>
    ELSE IF s[i] = "/" THEN <<acc>> \o split_from(s, i + 1, <<>>)
         ELSE split_from(s, i + 1, Append(acc, s[i]))

split(s) == split_from(s, 1, <<>>)

\* The entity URI the query service gives for an item.
EntityURI(qid) == <<"http:", "/", "/", "www.wikidata.org", "/", "entity", "/">> \o qid

\* A binding of the query's ?item to an entity.
Binding(qid) == [item |-> [value |-> EntityURI(qid)]]

\* What query_wikidata(query) comes back with: a list of bindings, or the
\* transport's exception.
Answered(bindings) == [bindings |-> bindings]
TransportError == [error |-> "transport"]

QueryCall(property, id, response) ==
    [op |-> "query_wikidata", property |-> property, id |-> id, response |-> response]

\* `len(bindings) == 1` written `len(bindings) >= 1`: the first of several
\* bindings is taken.
lookup_id_first(id, property, default, response) ==
    IF response = TransportError
    THEN [trace |-> <<QueryCall(property, id, response)>>, raised |-> TRUE, value |-> None]
    ELSE IF Len(response.bindings) >= 1
         THEN LET parts == split(response.bindings[1].item.value)
              IN [trace |-> <<QueryCall(property, id, response)>>, raised |-> FALSE,
                  value |-> parts[Len(parts)]]
         ELSE [trace |-> <<QueryCall(property, id, response)>>, raised |-> FALSE,
               value |-> default]

\* lookup_id(id, property, default), with query_wikidata coming back with
\* `response`.
lookup_id(id, property, default, response) ==
    IF response = TransportError
    THEN [trace |-> <<QueryCall(property, id, response)>>, raised |-> TRUE, value |-> None]
    ELSE IF Len(response.bindings) = 1
         THEN LET parts == split(response.bindings[1].item.value)
              IN [trace |-> <<QueryCall(property, id, response)>>, raised |-> FALSE,
                  value |-> parts[Len(parts)]]
         ELSE [trace |-> <<QueryCall(property, id, response)>>, raised |-> FALSE,
               value |-> default]

-----------------------------------------------------------------------------
(* The helper functions called one at a time *)

Idle == [fn |-> "none"]

InitImport ==
    /\ pc = "idle"
    /\ orcid = None
    /\ data = Null
    /\ researcher_qid = None
    /\ qs = None
    /\ employment_entries = <<>>
    /\ education_entries = <<>>

InitStore ==
    /\ files = InitialFiles
    /\ dicts = load_dicts(InitialFiles)
    /\ trace = <<>>
    /\ call = Idle
    /\ ret = Idle
    /\ InitImport

\* The program is single-threaded: a helper is called when none is running.
call_get_qid_for_item ==
    /\ call = Idle
    /\ \E key \in Categories, target_item \in Labels, answer \in AddKeyAnswers :
           LET r == get_qid_for_item(dicts, files, key, target_item, answer)
           IN /\ call' = [fn |-> "get_qid_for_item", key |-> key, target_item |-> target_item]
              /\ dicts' = r.dicts
              /\ files' = r.files
              /\ trace' = r.trace
              /\ ret' = [raised |-> r.raised, value |-> r.qid]
              /\ UNCHANGED importVars

\* The most targets of one process_item call.
MaxTargets == 2

P108 == <<"P108">>
P580 == <<"P580">>
P582 == <<"P582">>

\* A qualifier_nested_dictionary: target -> its qualifier pairs, in insertion order.
SomeQualifiers ==
    [l \in Labels |->
        IF l = MIT THEN <<>>
        ELSE IF l = Q7 THEN << <<P580, <<"+", "2", "0">> >> >>
        ELSE << <<P580, <<"+", "2", "0">> >>, <<P582, <<"+", "2", "1">> >> >>]

call_process_item ==
    /\ call = Idle
    /\ \E original_dict \in Categories, target_list \in SeqsUpTo(Labels, MaxTargets),
          qualifier_nested_dictionary \in {Null, SomeQualifiers} :
         \E answers \in [{target_list[i] : i \in 1..Len(target_list)}
                             \ (DOMAIN dicts[original_dict] \cup {l \in Labels : re_findall(l) # <<>>})
                          -> AddKeyAnswers] :
           LET a == [qs |-> <<>>, property_id |-> P108, original_dict |-> original_dict,
                     target_list |-> target_list, subject_qid |-> Q5,
                     ref |-> reference(ORCID1),
                     qualifier_nested_dictionary |-> qualifier_nested_dictionary]
               r == process_item(dicts, files, a, answers)
           IN /\ call' = [fn |-> "process_item", a |-> a]
              /\ dicts' = r.dicts
              /\ files' = r.files
              /\ trace' = r.trace
              /\ ret' = [raised |-> r.raised, value |-> r.qs]
              /\ UNCHANGED importVars

\* The caller takes the result; the next call starts from the store as it is.
finish ==
    /\ call # Idle
    /\ call' = Idle
    /\ ret' = Idle
    /\ trace' = <<>>
    /\ UNCHANGED <<storeVars, importVars>>

NextStore == call_get_qid_for_item \/ call_process_item \/ finish

SpecStore == InitStore /\ [][NextStore]_vars

-----------------------------------------------------------------------------
(* The vocabulary store: claims C1, C2, C3 *)

Miss(c) == c.target_item \notin DOMAIN dicts[c.key]

\* C1: a lookup of a label absent from its category, once it completes, has
\* asked add_key exactly once, returns the identifier add_key assigned, leaves
\* the label mapped to it in memory, and has rewritten the category's file at
\* once with the updated mapping, so that the file reads back as the mapping.
C1_MissAssignsAndPersists ==
    [][(/\ call = Idle
        /\ call'.fn = "get_qid_for_item"
        /\ Miss(call')
        /\ ~ret'.raised)
       => LET key == call'.key
              target_item == call'.target_item
          IN /\ Len(trace') = 2
             /\ trace'[1].op = "add_key"
             /\ trace'[1].target_item = target_item
             /\ ret'.value = trace'[1].answer
             /\ target_item \in DOMAIN dicts'[key]
             /\ dicts'[key][target_item] = trace'[1].answer
             /\ \A l \in DOMAIN dicts[key] : dicts'[key][l] = dicts[key][l]
             /\ DOMAIN dicts'[key] = DOMAIN dicts[key] \cup {target_item}
             /\ trace'[2] = WriteTextCall(key, files'[key])
             /\ json_loads(files'[key]) = dicts'[key]
             /\ \A other \in Categories \ {key} :
                    dicts'[other] = dicts[other] /\ files'[other] = files[other]]_vars

C1_Witness ==
    /\ call # Idle
    /\ call.fn = "get_qid_for_item"
    /\ call.key = "role"
    /\ call.target_item = MIT
    /\ ~ret.raised
    /\ ret.value = Q99
    /\ Len(trace) = 2
    /\ files["role"] = <<<<MIT, Q99>>>>

\* C2: a lookup of a label present in its category returns the stored
\* identifier and has no side effect: memory and files are as before, add_key
\* is not asked and no file is written.
C2_HitIsPure ==
    [][(/\ call = Idle
        /\ call'.fn = "get_qid_for_item"
        /\ ~Miss(call'))
       => /\ ~ret'.raised
          /\ ret'.value = dicts[call'.key][call'.target_item]
          /\ dicts' = dicts
          /\ files' = files
          /\ trace' = <<>>]_vars

C2_Witness ==
    /\ call # Idle
    /\ call.fn = "get_qid_for_item"
    /\ call.key = "institutions"
    /\ call.target_item = MIT
    /\ ret.value = Q42
    /\ trace = <<>>

\* The identifier syntax of the specification: a capital letter, then digits.
IsIdentifier(s) ==
    /\ Len(s) >= 2
    /\ s[1] \in Capitals
    /\ \A i \in 2..Len(s) : s[i] \in Digits

\* C3: a label of the identifier syntax handed to the vocabulary lookup comes
\* back unchanged, without add_key being asked and without a file written.
C3_IdentifierBypassesStore ==
    (/\ call # Idle
     /\ call.fn = "get_qid_for_item"
     /\ IsIdentifier(call.target_item))
    => /\ ~ret.raised
       /\ ret.value = call.target_item
       /\ trace = <<>>

-----------------------------------------------------------------------------
(* lookup_id called on its own: claim C5 *)

LAST == <<"LAST">>
P496 == <<"P496">>
P2427 == <<"P2427">>
GRID1 == <<"g", "r", "i", "d", ".", "1">>

\* The most bindings a query comes back with.
MaxBindings == 2

Entities == {Q42, Q99, Q7}

QueryResponses ==
    {Answered(b) : b \in SeqsUpTo({Binding(q) : q \in Entities}, MaxBindings)}
        \cup {TransportError}

call_lookup_id ==
    /\ call = Idle
    /\ \E id \in {ORCID1, GRID1}, property \in {P496, P2427}, default \in {LAST, MIT},
          response \in QueryResponses :
           LET r == lookup_id(id, property, default, response)
           IN /\ call' = [fn |-> "lookup_id", id |-> id, property |-> property,
                          default |-> default]
              /\ trace' = r.trace
              /\ ret' = [raised |-> r.raised, value |-> r.value]
              /\ UNCHANGED <<storeVars, importVars>>

NextResolve == call_lookup_id \/ finish

SpecResolve == InitStore /\ [][NextResolve]_vars

\* C5: lookup_id issues exactly one query, for its property and id, and
\* changes nothing; when the query comes back with exactly one binding it
\* returns that binding's entity identifier, and with none or several it
\* returns the default as given.
C5_ResolveSingleBindingOrDefault ==
    [][(call = Idle /\ call'.fn = "lookup_id")
       => /\ Len(trace') = 1
          /\ trace'[1].op = "query_wikidata"
          /\ trace'[1].property = call'.property
          /\ trace'[1].id = call'.id
          /\ dicts' = dicts
          /\ files' = files
          /\ ~ret'.raised =>
                LET b == trace'[1].response.bindings
                IN /\ Len(b) = 1 =>
                        \E q \in Entities : b[1] = Binding(q) /\ ret'.value = q
                   /\ Len(b) # 1 => ret'.value = call'.default]_vars

C5_Witness ==
    /\ call # Idle
    /\ call.fn = "lookup_id"
    /\ call.default = MIT
    /\ ~ret.raised
    /\ Len(trace[1].response.bindings) = 2
    /\ ret.value = MIT

-----------------------------------------------------------------------------
(* get_date *)

\* str(n) of a natural number.
RECURSIVE str(_)
str(n) ==
    IF n < 10 THEN <<DecimalDigits[n + 1]>>
    ELSE str(n \div 10) \o <<DecimalDigits[(n % 10) + 1]>>

\* f"{start_or_end}-date"
DateKey(start_or_end) == IF start_or_end = "start" THEN "start-date" ELSE "end-date"

Returned(value) == [raised |-> FALSE, value |-> value]
Raised == [raised |-> TRUE, value |-> None]

\* The day's `precision = 11` written `precision = 10`, as in the month's branch.
get_date_day_as_month(entry, start_or_end) ==
    LET date == entry[DateKey(start_or_end)]
    IN IF date = Null THEN Returned(<<>>)
       ELSE IF date.year = Null THEN Raised
       ELSE LET year == date.year.value
                month == IF date.month # Null THEN date.month.value ELSE <<"0", "0">>
                day == IF date.day # Null THEN date.day.value ELSE <<"0", "0">>
                precision == IF date.day # Null THEN 10
                             ELSE IF date.month # Null THEN 10 ELSE 9
            IN Returned(<<"+">> \o year \o <<"-">> \o month \o <<"-">> \o day
                            \o <<"T00:00:00Z", "/">> \o str(precision))

\* get_date(entry, start_or_end).  The three `if`s run in turn, so precision
\* is what the last one that fired set.  With no year, `year` is unbound at
\* the return and Python raises UnboundLocalError.
get_date(entry, start_or_end) ==
    LET date == entry[DateKey(start_or_end)]
    IN IF date = Null THEN Returned(<<>>)
       ELSE IF date.year = Null THEN Raised
       ELSE LET year == date.year.value
                month == IF date.month # Null THEN date.month.value ELSE <<"0", "0">>
                day == IF date.day # Null THEN date.day.value ELSE <<"0", "0">>
                precision == IF date.day # Null THEN 11
                             ELSE IF date.month # Null THEN 10 ELSE 9
            IN Returned(<<"+">> \o year \o <<"-">> \o month \o <<"-">> \o day
                            \o <<"T00:00:00Z", "/">> \o str(precision))

Y2020 == <<"2", "0", "2", "0">>
M05 == <<"0", "5">>
D03 == <<"0", "3">>

\* The date blocks of a record: absent, or year, month and day each absent or
\* a {"value": ...} object.
DateBlocks ==
    {Null} \cup [year : {Null, [value |-> Y2020]},
                 month : {Null, [value |-> M05]},
                 day : {Null, [value |-> D03]}]

call_get_date ==
    /\ call = Idle
    /\ \E sd \in DateBlocks, ed \in DateBlocks, start_or_end \in {"start", "end"} :
           LET entry == ("start-date" :> sd) @@ ("end-date" :> ed)
               r == get_date(entry, start_or_end)
           IN /\ call' = [fn |-> "get_date", entry |-> entry, start_or_end |-> start_or_end]
              /\ ret' = r
              /\ trace' = <<>>
              /\ UNCHANGED <<storeVars, importVars>>

NextDate == call_get_date \/ finish

SpecDate == InitStore /\ [][NextDate]_vars

\* C10: get_date gives the empty string for an absent block; for a block with
\* a year it gives +<year>-<month>-<day>T00:00:00Z/<precision>, a missing
\* month or day reading 00, with precision 9 for a year alone, 10 when the
\* month is there and the day is not, 11 when the day is there.
C10_DateRule ==
    (call # Idle /\ call.fn = "get_date")
    => LET date == call.entry[IF call.start_or_end = "start" THEN "start-date"
                              ELSE "end-date"]
       IN /\ date = Null => ret = [raised |-> FALSE, value |-> <<>>]
          /\ (date # Null /\ date.year # Null) =>
                /\ ~ret.raised
                /\ ret.value =
                     <<"+">> \o date.year.value \o <<"-">>
                       \o (IF date.month = Null THEN <<"0", "0">> ELSE date.month.value)
                       \o <<"-">>
                       \o (IF date.day = Null THEN <<"0", "0">> ELSE date.day.value)
                       \o <<"T00:00:00Z", "/">>
                       \o (CASE date.day # Null -> <<"1", "1">>
                             [] date.day = Null /\ date.month # Null -> <<"1", "0">>
                             [] OTHER -> <<"9">>)
          /\ date = [year |-> [value |-> Y2020], month |-> Null, day |-> Null] =>
                ret.value = <<"+", "2", "0", "2", "0", "-", "0", "0", "-", "0", "0",
                              "T00:00:00Z", "/", "9">>
          /\ date = [year |-> [value |-> Y2020], month |-> [value |-> M05], day |-> Null] =>
                ret.value = <<"+", "2", "0", "2", "0", "-", "0", "5", "-", "0", "0",
                              "T00:00:00Z", "/", "1", "0">>
          /\ date = [year |-> [value |-> Y2020], month |-> [value |-> M05],
                     day |-> [value |-> D03]] =>
                ret.value = <<"+", "2", "0", "2", "0", "-", "0", "5", "-", "0", "3",
                              "T00:00:00Z", "/", "1", "1">>

C10_Witness ==
    /\ call # Idle
    /\ call.fn = "get_date"
    /\ call.start_or_end = "end"
    /\ call.entry["end-date"] =
           [year |-> [value |-> Y2020], month |-> Null, day |-> [value |-> D03]]
    /\ ret.value = <<"+", "2", "0", "2", "0", "-", "0", "0", "-", "0", "3",
                     "T00:00:00Z", "/", "1", "1">>

-----------------------------------------------------------------------------
(* process_affiliation_entries *)

\* classes.AffiliationEntry: the four fields get_affiliation_info sets and
\* process_affiliation_entries reads.
AffiliationEntry(role, institution, start_date, end_date) ==
    [role |-> role, institution |-> institution, start_date |-> start_date,
     end_date |-> end_date]

\* The `if entry.end_date != ""` taken out of the `if entry.start_date != ""`.
affiliation_line_flat(entry, subject_qid, ref, property_id, role_property_id) ==
    <<NL, "        ">> \o subject_qid \o <<"|">> \o property_id \o <<"|">> \o entry.institution
        \o (IF entry.role # None THEN <<"|">> \o role_property_id \o <<"|">> \o entry.role
            ELSE <<>>)
        \o (IF entry.start_date # <<>> THEN <<"|">> \o P580 \o <<"|">> \o entry.start_date
            ELSE <<>>)
        \o (IF entry.end_date # <<>> THEN <<"|">> \o P582 \o <<"|">> \o entry.end_date
            ELSE <<>>)
        \o ref

\* What one turn of the loop of process_affiliation_entries adds to qs.
affiliation_line(entry, subject_qid, ref, property_id, role_property_id) ==
    <<NL, "        ">> \o subject_qid \o <<"|">> \o property_id \o <<"|">> \o entry.institution
        \o (IF entry.role # None THEN <<"|">> \o role_property_id \o <<"|">> \o entry.role
            ELSE <<>>)
        \o (IF entry.start_date # <<>>
            THEN <<"|">> \o P580 \o <<"|">> \o entry.start_date
                   \o (IF entry.end_date # <<>>
                       THEN <<"|">> \o P582 \o <<"|">> \o entry.end_date
                       ELSE <<>>)
            ELSE <<>>)
        \o ref

RECURSIVE process_affiliation_entries(_, _, _, _, _, _)
process_affiliation_entries(text, subject_qid, ref, affiliation_entries, property_id, role_property_id) ==
    IF affiliation_entries = <<>> THEN text
    ELSE process_affiliation_entries(
             text \o affiliation_line(affiliation_entries[1], subject_qid, ref, property_id,
                                      role_property_id),
             subject_qid, ref, Tail(affiliation_entries), property_id, role_property_id)

P2868 == <<"P2868">>
P512 == <<"P512">>
P69 == <<"P69">>

\* The most entries of one process_affiliation_entries call.
MaxEntries == 2

DateOf(block) == get_date(("start-date" :> block), "start").value

SomeEntries ==
    {AffiliationEntry(role, institution, start_date, end_date) :
        role \in {None, Q42}, institution \in {Q99, MIT},
        start_date \in {<<>>, DateOf([year |-> [value |-> Y2020], month |-> Null, day |-> Null])},
        end_date \in {<<>>, DateOf([year |-> [value |-> Y2020], month |-> [value |-> M05],
                                    day |-> Null])}}

call_process_affiliation_entries ==
    /\ call = Idle
    /\ \E affiliation_entries \in SeqsUpTo(SomeEntries, MaxEntries) :
           /\ call' = [fn |-> "process_affiliation_entries", qs |-> <<>>, subject_qid |-> Q5,
                       ref |-> reference(ORCID1), affiliation_entries |-> affiliation_entries,
                       property_id |-> P108, role_property_id |-> P2868]
           /\ ret' = Returned(process_affiliation_entries(<<>>, Q5, reference(ORCID1),
                                                          affiliation_entries, P108, P2868))
           /\ trace' = <<>>
           /\ UNCHANGED <<storeVars, importVars>>

NextAssemble == call_process_affiliation_entries \/ finish

SpecAssemble == InitStore /\ [][NextAssemble]_vars

\* The parts of s between the pieces equal to sep.
RECURSIVE SplitBy(_, _)
SplitBy(s, sep) ==
    IF \A i \in 1..Len(s) : s[i] # sep THEN <<s>>
    ELSE LET k == CHOOSE i \in 1..Len(s) : s[i] = sep /\ \A j \in 1..(i - 1) : s[j] # sep
         IN <<SubSeq(s, 1, k - 1)>> \o SplitBy(SubSeq(s, k + 1, Len(s)), sep)

Lines(text) == SplitBy(text, NL)
Fields(line) == SplitBy(line, "|")
Positions(f, x) == {k \in 1..Len(f) : f[k] = x}
EndsWith(s, t) == Len(s) >= Len(t) /\ SubSeq(s, Len(s) - Len(t) + 1, Len(s)) = t

\* C7: the text has one line per entry; a line carries P582 only after a
\* P580 of the same line; it carries P580 exactly when the start date is not
\* empty and P582 exactly when both dates are not empty; with no role the line
\* has no qualifier pair when the start date is empty, one when only the end
\* date is empty, two when neither is; and every line ends with the reference.
C7_EndQualifierOnlyAfterStart ==
    (call # Idle /\ call.fn = "process_affiliation_entries")
    => LET entries == call.affiliation_entries
           lines == Lines(ret.value)
       IN /\ Len(lines) = Len(entries) + 1
          /\ \A i \in 1..Len(entries) :
                LET e == entries[i]
                    f == Fields(lines[i + 1])
                    pairs == (Len(f) - 5) \div 2
                IN /\ \A k \in Positions(f, P582) : \E j \in Positions(f, P580) : j < k
                   /\ Positions(f, P580) # {} <=> e.start_date # <<>>
                   /\ Positions(f, P582) # {} <=> (e.start_date # <<>> /\ e.end_date # <<>>)
                   /\ \A k \in Positions(f, P580) : f[k + 1] = e.start_date
                   /\ \A k \in Positions(f, P582) : f[k + 1] = e.end_date
                   /\ e.role = None =>
                        /\ Len(f) = 5 + 2 * pairs
                        /\ e.start_date = <<>> => pairs = 0
                        /\ (e.start_date # <<>> /\ e.end_date = <<>>) => pairs = 1
                        /\ (e.start_date # <<>> /\ e.end_date # <<>>) => pairs = 2
                   /\ EndsWith(lines[i + 1], call.ref)

C7_Witness ==
    /\ call # Idle
    /\ call.fn = "process_affiliation_entries"
    /\ Len(call.affiliation_entries) = 2
    /\ call.affiliation_entries[1].role = None
    /\ call.affiliation_entries[1].start_date = <<>>
    /\ call.affiliation_entries[1].end_date # <<>>
    /\ call.affiliation_entries[2].role = None
    /\ call.affiliation_entries[2].start_date # <<>>
    /\ call.affiliation_entries[2].end_date # <<>>
    /\ Len(Fields(Lines(ret.value)[2])) = 5
    /\ Len(Fields(Lines(ret.value)[3])) = 9

-----------------------------------------------------------------------------
(* get_institution_qid, get_affiliation_info *)

GRID == <<"GRID">>
RINGGOLD == <<"RINGGOLD">>

\* A record's "disambiguated-organization" object.
Disambiguated(source, identifier) ==
    ("disambiguation-source" :> source) @@ ("disambiguated-organization-identifier" :> identifier)

\* get_institution_qid(data_entry, name) on the store <<ds, fs>>, with
\* query_wikidata coming back with `response` and the operator answering
\* `answer`, whichever of the two is asked.
get_institution_qid(ds, fs, data_entry, name, response, answer) ==
    LET d == data_entry["disambiguated-organization"]
    IN IF /\ d # Null
          /\ "disambiguation-source" \in DOMAIN d
          /\ d["disambiguation-source"] = GRID
       THEN LET grid == d["disambiguated-organization-identifier"]
                r == lookup_id(grid, P2427, name, response)
            IN [dicts |-> ds, files |-> fs, trace |-> r.trace, raised |-> r.raised,
                qid |-> r.value]
       ELSE get_qid_for_item(ds, fs, "institutions", name, answer)

\* What the collaborators answer during one turn of get_affiliation_info's loop.
Oracle(role, response, institution) ==
    [role |-> role, response |-> response, institution |-> institution]

\* One turn of the loop of get_affiliation_info, lines 229-245: the entry of
\* data_entry, with the store after it and the collaborator calls made.
get_affiliation_entry(ds, fs, data_entry, oracle) ==
    LET title == data_entry["role-title"]
        r1 == IF title # None
              THEN get_qid_for_item(ds, fs, "role", title, oracle.role)
              ELSE [dicts |-> ds, files |-> fs, trace |-> <<>>, raised |-> FALSE,
                    qid |-> None]
        start_date == get_date(data_entry, "start")
        end_date == get_date(data_entry, "end")
        organization == data_entry["organization"]
        r2 == get_institution_qid(r1.dicts, r1.files, organization, organization["name"],
                                  oracle.response, oracle.institution)
    IN IF r1.raised
       THEN [dicts |-> r1.dicts, files |-> r1.files, trace |-> r1.trace, raised |-> TRUE,
             entry |-> Null]
       ELSE IF start_date.raised \/ end_date.raised
       THEN [dicts |-> r1.dicts, files |-> r1.files, trace |-> r1.trace, raised |-> TRUE,
             entry |-> Null]
       ELSE IF r2.raised
       THEN [dicts |-> r2.dicts, files |-> r2.files, trace |-> r1.trace \o r2.trace,
             raised |-> TRUE, entry |-> Null]
       ELSE [dicts |-> r2.dicts, files |-> r2.files, trace |-> r1.trace \o r2.trace,
             raised |-> FALSE,
             entry |-> AffiliationEntry(r1.qid, r2.qid, start_date.value, end_date.value)]

\* organization_list.insert(0, entry) in place of the append.
list_prepend(organization_list, entry) == <<entry>> \o organization_list

\* organization_list.append(entry)
list_append(organization_list, entry) == Append(organization_list, entry)

-----------------------------------------------------------------------------
(* get_external_ids, get_base_qs *)

\* A Python dict as its items in insertion order; d[key] = value keeps the
\* place of a key that is there and appends one that is not.
dict_set(d, key, value) ==
    IF \E i \in 1..Len(d) : d[i][1] = key
    THEN [i \in 1..Len(d) |-> IF d[i][1] = key THEN <<key, value>> ELSE d[i]]
    ELSE Append(d, <<key, value>>)

RECURSIVE get_external_ids_from(_, _)
get_external_ids_from(id_list, id_dict) ==
    IF id_list = <<>> THEN id_dict
    ELSE get_external_ids_from(
             Tail(id_list),
             dict_set(id_dict, id_list[1]["external-id-type"],
                      id_list[1]["external-id-value"]))

get_external_ids(d) ==
    get_external_ids_from(d["person"]["external-identifiers"]["external-identifier"], <<>>)

LoopProfile == <<"Loop profile">>
ScopusAuthorID == <<"Scopus Author ID">>
ResearcherID == <<"ResearcherID">>
ISNI == <<"ISNI">>

EXTERNAL_ID_PROPERTIES ==
    (LoopProfile :> <<"P2798">>) @@ (ScopusAuthorID :> <<"P1153">>)
        @@ (ResearcherID :> <<"P2038">>)

\* The loop of render_orcid_qs over external_ids.items(), lines 72-74.
RECURSIVE external_id_lines(_, _, _, _)
external_id_lines(text, items, qid, ref) ==
    IF items = <<>> THEN text
    ELSE external_id_lines(
             IF items[1][1] \in DOMAIN EXTERNAL_ID_PROPERTIES
             THEN text \o <<NL>> \o qid \o <<"|">> \o EXTERNAL_ID_PROPERTIES[items[1][1]]
                       \o <<"|", "\"">> \o items[1][2] \o <<"\"">> \o ref
             ELSE text,
             Tail(items), qid, ref)

\* The three identity statements of get_base_qs, lines 97-100.
identity_statements(id, qid, ref) ==
    <<NL>> \o qid \o <<"|", "P31", "|", "Q5">> \o ref
        \o <<NL>> \o qid \o <<"|", "P106", "|", "Q1650915">> \o ref
        \o <<NL>> \o qid \o <<"|", "P496", "|", "\"">> \o id \o <<"\"">> \o ref \o <<" ">>

\* The CREATE header of get_base_qs, lines 88-91.
create_header(qid, first_name, last_name) ==
    <<"CREATE", NL>> \o qid \o <<"|", "Len", "|", "\"">> \o first_name \o <<" ">>
        \o last_name \o <<"\"", NL>> \o qid \o <<"|", "Den", "|", "\"researcher\"", NL, "    ">>

\* The `if researcher_qid == "LAST"` left out: the header is always written.
get_base_qs_always_create(id, d, qid, ref) ==
    LET personal_data == d["person"]
        first_name == personal_data["name"]["given-names"]["value"]
        last_name == personal_data["name"]["family-name"]["value"]
    IN create_header(qid, first_name, last_name) \o identity_statements(id, qid, ref)

get_base_qs(id, d, qid, ref) ==
    LET personal_data == d["person"]
        first_name == personal_data["name"]["given-names"]["value"]
        last_name == personal_data["name"]["family-name"]["value"]
    IN (IF qid = LAST THEN create_header(qid, first_name, last_name) ELSE <<>>)
           \o identity_statements(id, qid, ref)

-----------------------------------------------------------------------------
(* render_orcid_qs *)

\* One employment or education summary of a profile.
Summary(title, start, end, name, disambiguated) ==
    ("role-title" :> title) @@ ("start-date" :> start) @@ ("end-date" :> end)
        @@ ("organization" :>
                (("name" :> name) @@ ("disambiguated-organization" :> disambiguated)))

ExternalId(type, value) == ("external-id-type" :> type) @@ ("external-id-value" :> value)

\* The profile document of the ORCID API, as far as render_orcid_qs reads it.
Profile(given, family, ids, employments, educations) ==
    ("person" :>
        (("name" :> (("given-names" :> [value |-> given])
                        @@ ("family-name" :> [value |-> family])))
         @@ ("external-identifiers" :> ("external-identifier" :> ids))))
    @@ ("activities-summary" :>
        (("employments" :> ("employment-summary" :> employments))
         @@ ("educations" :> ("education-summary" :> educations))))

YearOnly == [year |-> [value |-> Y2020], month |-> Null, day |-> Null]
YearMonth == [year |-> [value |-> Y2020], month |-> [value |-> M05], day |-> Null]
MonthOnly == [year |-> Null, month |-> [value |-> M05], day |-> Null]

\* The summaries a profile of the model is made of: an organization GRID
\* knows, one named by an unknown label, roles with dates, a disambiguation
\* source other than GRID, and a date block without a year.
Summaries ==
    {Summary(None, Null, Null, MIT, Disambiguated(GRID, GRID1)),
     Summary(None, Null, Null, Q7, Null),
     Summary(P7, YearOnly, Null, Q7, Null),
     Summary(P7, YearOnly, YearMonth, MIT, Disambiguated(RINGGOLD, <<"1">>)),
     Summary(None, Null, MonthOnly, MIT, Null)}

V1 == <<"1", "1">>
V2 == <<"2", "2">>

ExternalIdLists ==
    {<<>>,
     <<ExternalId(ScopusAuthorID, V1), ExternalId(ScopusAuthorID, V2)>>,
     <<ExternalId(ISNI, V1), ExternalId(LoopProfile, V2), ExternalId(ScopusAuthorID, V1)>>,
     <<ExternalId(ResearcherID, V1), ExternalId(LoopProfile, V2), ExternalId(ResearcherID, V2)>>}

\* The most summaries of a profile, employments and educations together.
MaxSummaries == 2

Profiles ==
    {Profile(<<"A">>, <<"B">>, ids, employments, educations) :
        ids \in ExternalIdLists,
        employments \in SeqsUpTo(Summaries, MaxSummaries),
        educations \in SeqsUpTo(Summaries, MaxSummaries)}

\* What query_wikidata comes back with during an import.
ImportResponses ==
    {Answered(<<>>), Answered(<<Binding(Q42)>>), Answered(<<Binding(Q42), Binding(Q99)>>),
     TransportError}

employment_data == data["activities-summary"]["employments"]["employment-summary"]
education_data == data["activities-summary"]["educations"]["education-summary"]
ref == reference(orcid)

\* The exception leaves render_orcid_qs: nothing is returned.
Abort ==
    /\ pc' = "aborted"
    /\ ret' = Raised
    /\ UNCHANGED <<call, orcid, data, researcher_qid, qs, employment_entries,
                   education_entries>>

\* render_orcid_qs(orcid), line 39: data = get_orcid_data(orcid).  (The dump
\* of data to sample.json, lines 41-42, is left out: nothing reads it.)
get_orcid_data ==
    /\ pc = "idle"
    /\ \E id \in {ORCID1}, d \in Profiles :
           /\ Len(d["activities-summary"]["employments"]["employment-summary"])
                + Len(d["activities-summary"]["educations"]["education-summary"]) <= MaxSummaries
           /\ pc' = "lookup"
           /\ orcid' = id
           /\ data' = d
           /\ UNCHANGED <<storeVars, trace, callVars, researcher_qid, qs, employment_entries,
                          education_entries>>

\* requests.get or r.json() raises.
get_orcid_data_fails ==
    /\ pc = "idle"
    /\ pc' = "aborted"
    /\ ret' = Raised
    /\ orcid' = ORCID1
    /\ UNCHANGED <<storeVars, trace, call, data, researcher_qid, qs, employment_entries,
                   education_entries>>

\* Lines 44-47: researcher_qid = lookup_id(orcid, property="P496", default="LAST"),
\* ref, qs = get_base_qs(...).
resolve_researcher ==
    /\ pc = "lookup"
    /\ \E response \in ImportResponses :
           LET r == lookup_id(orcid, P496, LAST, response)
           IN /\ trace' = trace \o r.trace
              /\ IF r.raised
                 THEN Abort
                 ELSE /\ pc' = "employments"
                      /\ researcher_qid' = r.value
                      /\ qs' = get_base_qs(orcid, data, r.value, ref)
                      /\ UNCHANGED <<callVars, orcid, data, employment_entries,
                                     education_entries>>
              /\ UNCHANGED storeVars

\* The answers that can matter to the turn of the loop on data_entry.
Oracles(data_entry) ==
    LET title == data_entry["role-title"]
        organization == data_entry["organization"]
        d == organization["disambiguated-organization"]
        grid == d # Null /\ "disambiguation-source" \in DOMAIN d
                    /\ d["disambiguation-source"] = GRID
    IN {Oracle(role, response, institution) :
          role \in IF title # None /\ title \notin DOMAIN dicts["role"]
                   THEN AddKeyAnswers ELSE {Raise},
          response \in IF grid THEN ImportResponses ELSE {TransportError},
          institution \in IF ~grid /\ organization["name"] \notin DOMAIN dicts["institutions"]
                          THEN AddKeyAnswers ELSE {Raise}}

\* Line 50, get_affiliation_info(employment_data): one turn of its loop.
\* employment_entries holds organization_list while the loop runs.
employment_turn ==
    /\ pc = "employments"
    /\ Len(employment_entries) < Len(employment_data)
    /\ \E oracle \in Oracles(employment_data[Len(employment_entries) + 1]) :
        LET r == get_affiliation_entry(dicts, files,
                                       employment_data[Len(employment_entries) + 1], oracle)
        IN /\ dicts' = r.dicts
           /\ files' = r.files
           /\ trace' = trace \o r.trace
           /\ IF r.raised
              THEN Abort
              ELSE /\ employment_entries' = list_append(employment_entries, r.entry)
                   /\ UNCHANGED <<pc, callVars, orcid, data, researcher_qid, qs,
                                  education_entries>>

\* Lines 51-58: the employment statements.
process_employments ==
    /\ pc = "employments"
    /\ Len(employment_entries) = Len(employment_data)
    /\ pc' = "educations"
    /\ qs' = process_affiliation_entries(qs, researcher_qid, ref, employment_entries,
                                         P108, P2868)
    /\ UNCHANGED <<storeVars, trace, callVars, orcid, data, researcher_qid,
                   employment_entries, education_entries>>

\* Line 61, get_affiliation_info(education_data): one turn of its loop.
education_turn ==
    /\ pc = "educations"
    /\ Len(education_entries) < Len(education_data)
    /\ \E oracle \in Oracles(education_data[Len(education_entries) + 1]) :
        LET r == get_affiliation_entry(dicts, files,
                                       education_data[Len(education_entries) + 1], oracle)
        IN /\ dicts' = r.dicts
           /\ files' = r.files
           /\ trace' = trace \o r.trace
           /\ IF r.raised
              THEN Abort
              ELSE /\ education_entries' = list_append(education_entries, r.entry)
                   /\ UNCHANGED <<pc, callVars, orcid, data, researcher_qid, qs,
                                  employment_entries>>

\* Lines 62-69: the education statements.
process_educations ==
    /\ pc = "educations"
    /\ Len(education_entries) = Len(education_data)
    /\ pc' = "external_ids"
    /\ qs' = process_affiliation_entries(qs, researcher_qid, ref, education_entries,
                                         P69, P512)
    /\ UNCHANGED <<storeVars, trace, callVars, orcid, data, researcher_qid,
                   employment_entries, education_entries>>

\* Lines 71-76: the external identifiers, and the return of qs.
external_ids ==
    /\ pc = "external_ids"
    /\ pc' = "done"
    /\ qs' = external_id_lines(qs, get_external_ids(data), researcher_qid, ref)
    /\ ret' = Returned(qs')
    /\ UNCHANGED <<storeVars, trace, call, orcid, data, researcher_qid,
                   employment_entries, education_entries>>

Init == InitStore

Next ==
    \/ get_orcid_data
    \/ get_orcid_data_fails
    \/ resolve_researcher
    \/ employment_turn
    \/ process_employments
    \/ education_turn
    \/ process_educations
    \/ external_ids

Spec == Init /\ [][Next]_vars

-----------------------------------------------------------------------------
(* Claims about an import: C4, C6, C8, C9 *)

\* The text of the category's file once the first k calls of trace are made.
RECURSIVE FileAfter(_, _)
FileAfter(key, k) ==
    IF k = 0 THEN InitialFiles[key]
    ELSE IF trace[k].op = "write_text" /\ trace[k].key = key THEN trace[k].text
    ELSE FileAfter(key, k - 1)

\* C4: when add_key fails on a missing label, it is the last thing the import
\* does: the import is aborted and returns no statement text, the label is
\* in neither the category's memory nor its file, and the file holds what it
\* held before the failed lookup.  A category file is written only right after
\* add_key assigned an identifier in that category, and then holds it.
C4_FailedAssignmentAborts ==
    \A k \in 1..Len(trace) :
        /\ (trace[k].op = "add_key" /\ trace[k].answer = Raise)
           => /\ k = Len(trace)
              /\ pc = "aborted"
              /\ ret = Raised
              /\ trace[k].target_item \notin DOMAIN dicts[trace[k].key]
              /\ trace[k].target_item \notin DOMAIN json_loads(files[trace[k].key])
              /\ \A c \in Categories : files[c] = FileAfter(c, k - 1)
        /\ trace[k].op = "write_text"
           => /\ k > 1
              /\ trace[k - 1].op = "add_key"
              /\ trace[k - 1].answer # Raise
              /\ trace[k - 1].key = trace[k].key
              /\ trace[k - 1].target_item \in DOMAIN json_loads(trace[k].text)
              /\ json_loads(trace[k].text)[trace[k - 1].target_item] = trace[k - 1].answer

\* A role was assigned and saved, then the assignment of the institution failed.
C4_Witness ==
    /\ pc = "aborted"
    /\ Len(trace) = 4
    /\ trace[2] = AddKeyCall("role", P7, Q42)
    /\ trace[4] = AddKeyCall("institutions", Q7, Raise)
    /\ files["role"] = <<<<P7, Q42>>>>
    /\ files["institutions"] = InitialFiles["institutions"]
    /\ ret = Raised

\* C6: every entry the extractor has produced has an identifier for its
\* institution, never a free-text name.
C6_InstitutionIsIdentifier ==
    /\ \A i \in 1..Len(employment_entries) : IsIdentifier(employment_entries[i].institution)
    /\ \A i \in 1..Len(education_entries) : IsIdentifier(education_entries[i].institution)

Whitespace == {" ", "    ", "        "}

\* Python's str.strip() on a line of pieces.
RECURSIVE Strip(_)
Strip(line) ==
    IF line # <<>> /\ line[1] \in Whitespace THEN Strip(Tail(line))
    ELSE IF line # <<>> /\ line[Len(line)] \in Whitespace
    THEN Strip(SubSeq(line, 1, Len(line) - 1))
    ELSE line

Contains(s, t) == \E i \in 0..(Len(s) - Len(t)) : SubSeq(s, i + 1, i + Len(t)) = t

\* The lines of the text that are not blank, each stripped, top to bottom.
RECURSIVE StrippedLines(_)
StrippedLines(lines) ==
    IF lines = <<>> THEN <<>>
    ELSE (IF Strip(lines[1]) = <<>> THEN <<>> ELSE <<Strip(lines[1])>>)
             \o StrippedLines(Tail(lines))

Quoted(s) == <<"\"">> \o s \o <<"\"">>

\* The positions of the profile's external identifiers that open a recognized
\* type, in ascending order.
FirstOfType(ids) ==
    LET F == {i \in 1..Len(ids) :
                /\ ids[i]["external-id-type"] \in DOMAIN EXTERNAL_ID_PROPERTIES
                /\ \A j \in 1..(i - 1) :
                      ids[j]["external-id-type"] # ids[i]["external-id-type"]}
    IN CHOOSE f \in [1..Cardinality(F) -> F] :
          \A a, b \in 1..Cardinality(F) : a < b => f[a] < f[b]

\* The last position of ids with the type of position i.
LastOfType(ids, i) ==
    CHOOSE j \in i..Len(ids) :
        /\ ids[j]["external-id-type"] = ids[i]["external-id-type"]
        /\ \A k \in (j + 1)..Len(ids) :
              ids[k]["external-id-type"] # ids[i]["external-id-type"]

\* The line is the statement of the i-th summary and the i-th entry of a list.
AffiliationLineOf(line, summary, entry, property_id, role_property_id) ==
    LET f == Fields(line)
    IN /\ Len(f) >= 5
       /\ f[1] = researcher_qid
       /\ f[2] = property_id
       /\ f[3] = entry.institution
       /\ Positions(f, role_property_id) # {} <=> summary["role-title"] # None
       /\ Positions(f, P580) # {} <=> summary["start-date"] # Null
       /\ Positions(f, P582) # {}
            <=> (summary["start-date"] # Null /\ summary["end-date"] # Null)

\* C8: the text render_orcid_qs returns is, blank lines apart: the CREATE
\* line, the Len line and the Den line exactly when the subject is "LAST";
\* the P31, P106 and P496 statements; one P108 line per employment summary in
\* the profile's order; one P69 line per education summary in the profile's
\* order; one line per recognized external-identifier type, in the order the
\* types first appear; and nothing else.  Every line from the P31 line on
\* carries the reference fragment.
C8_OutputOrder ==
    pc = "done"
    => LET L == StrippedLines(Lines(ret.value))
           h == IF researcher_qid = LAST THEN 3 ELSE 0
           ne == Len(employment_data)
           nd == Len(education_data)
           ids == data["person"]["external-identifiers"]["external-identifier"]
           first == FirstOfType(ids)
           nx == Len(first)
           name == data["person"]["name"]
       IN /\ Len(L) = h + 3 + ne + nd + nx
          /\ researcher_qid = LAST
             => /\ L[1] = <<"CREATE">>
                /\ Fields(L[2]) = <<LAST, <<"Len">>,
                                    Quoted(name["given-names"].value \o <<" ">>
                                             \o name["family-name"].value)>>
                /\ Fields(L[3]) = <<LAST, <<"Den">>, <<"\"researcher\"">>>>
          /\ \A i \in 1..Len(L) :
                /\ L[i] = <<"CREATE">> => (i = 1 /\ researcher_qid = LAST)
                /\ Positions(Fields(L[i]), <<"Len">>) # {} => (i = 2 /\ researcher_qid = LAST)
                /\ Positions(Fields(L[i]), <<"Den">>) # {} => (i = 3 /\ researcher_qid = LAST)
          /\ L[h + 1] = researcher_qid \o <<"|", "P31", "|", "Q5">> \o ref
          /\ L[h + 2] = researcher_qid \o <<"|", "P106", "|", "Q1650915">> \o ref
          /\ L[h + 3] = researcher_qid \o <<"|", "P496", "|">> \o Quoted(orcid) \o ref
          /\ \A i \in 1..ne :
                AffiliationLineOf(L[h + 3 + i], employment_data[i], employment_entries[i],
                                  P108, P2868)
          /\ \A i \in 1..nd :
                AffiliationLineOf(L[h + 3 + ne + i], education_data[i], education_entries[i],
                                  P69, P512)
          /\ \A i \in 1..nx :
                L[h + 3 + ne + nd + i]
                  = researcher_qid \o <<"|">>
                      \o EXTERNAL_ID_PROPERTIES[ids[first[i]]["external-id-type"]] \o <<"|">>
                      \o Quoted(ids[LastOfType(ids, first[i])]["external-id-value"]) \o ref
          /\ \A i \in (h + 1)..Len(L) : Contains(L[i], ref)

\* A new item with one employment, one education and two recognized types
\* among three external identifiers: ten lines.
C8_Witness ==
    /\ pc = "done"
    /\ researcher_qid = LAST
    /\ Len(employment_data) = 1
    /\ Len(education_data) = 1
    /\ employment_entries[1].institution = Q42
    /\ education_entries[1].institution = Q99
    /\ Len(data["person"]["external-identifiers"]["external-identifier"]) = 3
    /\ Len(StrippedLines(Lines(ret.value))) = 10
    /\ StrippedLines(Lines(ret.value))[1] = <<"CREATE">>
    /\ Fields(StrippedLines(Lines(ret.value))[7])[3] = Q42
    /\ Fields(StrippedLines(Lines(ret.value))[8])[3] = Q99

\* The entry is the resolution of the summary.
EntryOf(entry, summary) ==
    LET title == summary["role-title"]
        organization == summary["organization"]
        name == organization["name"]
        d == organization["disambiguated-organization"]
        grid == d # Null /\ "disambiguation-source" \in DOMAIN d
                    /\ d["disambiguation-source"] = GRID
    IN /\ entry.role = None <=> title = None
       /\ title # None
          => title \in DOMAIN dicts["role"] /\ entry.role = dicts["role"][title]
       /\ ~grid
          => name \in DOMAIN dicts["institutions"]
               /\ entry.institution = dicts["institutions"][name]
       /\ grid
          => \E k \in 1..Len(trace) :
                /\ trace[k].op = "query_wikidata"
                /\ trace[k].property = P2427
                /\ trace[k].id = d["disambiguated-organization-identifier"]
                /\ trace[k].response # TransportError
                /\ entry.institution
                     = IF Len(trace[k].response.bindings) = 1
                       THEN SubSeq(trace[k].response.bindings[1].item.value,
                                   Len(EntityURI(<<>>)) + 1,
                                   Len(trace[k].response.bindings[1].item.value))
                       ELSE name
       /\ entry.start_date = <<>> <=> summary["start-date"] = Null
       /\ entry.end_date = <<>> <=> summary["end-date"] = Null
       /\ summary["start-date"] # Null
          => SubSeq(entry.start_date, 2, 5) = summary["start-date"].year.value
       /\ summary["end-date"] # Null
          => SubSeq(entry.end_date, 2, 5) = summary["end-date"].year.value

\* C9: a list the extractor returned has one entry per summary of its input,
\* and while and after it runs the i-th entry is the resolution of the i-th
\* summary: the role absent exactly when the summary has no role title, and
\* otherwise the vocabulary's identifier of the title; the institution and the
\* dates those of the summary.
C9_EntriesFollowRecords ==
    /\ Len(employment_entries) > 0 => Len(employment_entries) <= Len(employment_data)
    /\ Len(education_entries) > 0 => Len(education_entries) <= Len(education_data)
    /\ pc \in {"educations", "external_ids", "done"}
       => Len(employment_entries) = Len(employment_data)
    /\ pc \in {"external_ids", "done"} => Len(education_entries) = Len(education_data)
    /\ \A i \in 1..Len(employment_entries) : EntryOf(employment_entries[i], employment_data[i])
    /\ \A i \in 1..Len(education_entries) : EntryOf(education_entries[i], education_data[i])

\* Two employments, the first without a role title, the second with one.
C9_Witness ==
    /\ pc = "educations"
    /\ Len(employment_data) = 2
    /\ employment_data[1]["role-title"] = None
    /\ employment_data[2]["role-title"] = P7
    /\ Len(employment_entries) = 2
    /\ employment_entries[1].role = None
    /\ employment_entries[2].role = Q99
    /\ employment_entries[1].institution # employment_entries[2].institution

====
